---- MODULE Spec2Model ----
(***************************************************************************)
(* Model of the compliance pipeline of code_validator_agent (src/tools.py): *)
(* document_parser builds the rule catalog, code_parser.analyze_file the    *)
(* per-file feature records, code_validator the findings and the metrics.   *)
(*                                                                          *)
(* Specifications, all over the same variables:                             *)
(*   Spec          one call of code_validator                               *)
(*   SpecExtract   one call of analyze_file                                 *)
(*   SpecParser    validate_codebase_path and the code_parser loop over a   *)
(*                 directory without sub-directories                        *)
(*   SpecTree      the same walk over a tree of directories                 *)
(*   SpecReport    one call of generate_report                              *)
(*   SpecPreprocess  one call of preprocess_databricks_notebook             *)
(*                                                                          *)
(* Python values are modelled as follows.                                   *)
(*   dict            function; a missing key is a key outside DOMAIN        *)
(*   insertion-ordered dict of files   sequence of [path, analysis]         *)
(*   list            sequence                                               *)
(*   int             [kind |-> "int", num, den |-> 1]                       *)
(*   float a / b     [kind |-> "float", num |-> a, den |-> b] (a rational;  *)
(*                   compared by cross multiplication)                      *)
(*   a rule text     <<tag, index>>: code_validator reads only the length   *)
(*                   and the emptiness of a rule list                       *)
(*   a source text   a unit: what analyze_file reads of its syntax tree     *)
(***************************************************************************)
EXTENDS Integers, Sequences, FiniteSets, TLC

VARIABLES
    blueprint_rules,      \* argument of code_validator: the rule catalog
    code_analysis,        \* argument of code_validator: code_parser's return value
    validation_results,   \* the dict code_validator builds and returns
    outcome,              \* how the call ended: "none", "returned" or "ValidationInputError"
    pc,                   \* the position of the run, see each specification
    source_unit,          \* argument of analyze_file: the source text, as a unit
    record,               \* the value analyze_file returns
    codebase,             \* the directory tree under codebase_path
    to_walk,              \* the directories os.walk has still to yield
    pending,              \* the directory os.walk yielded last and its files not yet handled
    opened,               \* the relative paths of the files code_parser has opened so far
    python_files,         \* the list validate_codebase_path returns
    report,               \* the document generate_report builds
    output_file,          \* what the file system holds at output_path
    report_outcome,       \* how the call of generate_report ended
    lines,                \* content.split('\n') in preprocess_databricks_notebook
    line_index,           \* the number of lines the loop of the preprocessing has taken
    processed_lines,      \* the lines kept so far
    in_code_cell,         \* flag of the preprocessing loop
    in_markdown           \* flag of the preprocessing loop

validator_vars == <<blueprint_rules, validation_results, outcome>>
extract_vars == <<source_unit, record>>
parser_vars == <<codebase, to_walk, pending, opened, python_files>>
report_vars == <<report, output_file, report_outcome>>
preprocess_vars == <<lines, line_index, processed_lines, in_code_cell, in_markdown>>

vars == <<blueprint_rules, code_analysis, validation_results, outcome, pc,
          source_unit, record, codebase, to_walk, pending, opened, python_files,
          report, output_file, report_outcome,
          lines, line_index, processed_lines, in_code_cell, in_markdown>>

----------------------------------------------------------------------------
(* Bounds of the model *)

\* most files in one codebase analysis
MaxFiles == 2

\* longest rule list of a hand-built catalog
MaxRules == 1

\* most blueprint documents handed to document_parser
MaxBlueprints == 1

\* most calls, and most assignments, in one source unit given to analyze_file
MaxCalls == 2

----------------------------------------------------------------------------
(* Rule catalog: document_parser *)

Categories ==
    {"coding_standards", "security_requirements", "performance_guidelines",
     "documentation_requirements", "testing_requirements", "error_handling",
     "logging_requirements", "data_handling", "general_guidelines"}

Blueprints ==
    {"Basic level coding best practices.docx",
     "Guidelines for integrated data model_schema.docx",
     "Application Level Logging best practices.docx",
     "Why and how loops should be avoided in ETLs_ELTs.docx",
     "Guidelines for ETL data staging and production.docx",
     "End to End Pipeline Automation.docx",
     "Version management of PowerBI content.docx",
     "How to use ADF to make Ops-friendly data pipelines.docx"}

\* n rule texts of one blueprint
RuleTexts(tag, n) == [i \in 1..n |-> <<tag, i>>]

\* list.extend under `if name in blueprint_files`
ExtendIf(files, name, rules, new) == IF name \in files THEN rules \o new ELSE rules

\* document_parser(blueprint_files); dir_files is what blueprints/*.docx lists
document_parser(blueprint_files, dir_files) ==
    LET files == IF blueprint_files = {} THEN dir_files ELSE blueprint_files
        bp1 == "Basic level coding best practices.docx"
        bp2 == "Guidelines for integrated data model_schema.docx"
        bp3 == "Application Level Logging best practices.docx"
        bp4 == "Why and how loops should be avoided in ETLs_ELTs.docx"
        bp5 == "Guidelines for ETL data staging and production.docx"
        bp6 == "End to End Pipeline Automation.docx"
        bp7 == "Version management of PowerBI content.docx"
        bp8 == "How to use ADF to make Ops-friendly data pipelines.docx"
    IN  [c \in Categories |->
            CASE c = "coding_standards" ->
                    ExtendIf(files, bp1, <<>>, RuleTexts("bp1.coding", 5))
              [] c = "error_handling" ->
                    ExtendIf(files, bp1, <<>>, RuleTexts("bp1.error", 3))
              [] c = "documentation_requirements" ->
                    ExtendIf(files, bp1, <<>>, RuleTexts("bp1.doc", 3))
              [] c = "data_handling" ->
                    ExtendIf(files, bp8,
                      ExtendIf(files, bp6,
                        ExtendIf(files, bp5,
                          ExtendIf(files, bp2, <<>>, RuleTexts("bp2.data", 5)),
                          RuleTexts("bp5.data", 4)),
                        RuleTexts("bp6.data", 4)),
                      RuleTexts("bp8.data", 4))
              [] c = "logging_requirements" ->
                    ExtendIf(files, bp3, <<>>, RuleTexts("bp3.log", 5))
              [] c = "performance_guidelines" ->
                    ExtendIf(files, bp4, <<>>, RuleTexts("bp4.perf", 4))
              [] c = "general_guidelines" ->
                    ExtendIf(files, bp7, <<>>, RuleTexts("bp7.general", 4))
              [] OTHER -> <<>>]

----------------------------------------------------------------------------
(* Feature records: code_parser.analyze_file *)

DataOperationNames == {"read", "write", "createOrReplaceTempView", "cache", "persist"}
QualityCheckNames == {"filter", "dropna", "fillna", "isNotNull"}
OptimizationNames == {"repartition", "coalesce", "cache", "persist"}

TransformationNames == {"select", "withColumn", "groupBy", "agg", "join"}
LogLevelNames == {"info", "error", "warning", "debug"}

\* A source unit is what analyze_file sees of a source text:
\*   syntax    "empty" when the preprocessed text is blank, "invalid" when
\*             ast.parse raises on it, "valid" otherwise
\*   calls     the member names of the Call nodes with a func.attr, in ast.walk order
\*   assigns   the member names of the calls that are the value of an
\*             Assign or AnnAssign node, in ast.walk order
\*   imports   the names the Import and ImportFrom nodes give, normalised
\*   has_try   the tree holds an ast.Try
\*   has_doc   ast.get_docstring(tree) is non-empty
\* A node's line number is its position in the walk.

\* the Call nodes of a unit with their line numbers
CallNodes(unit) == [i \in 1..Len(unit.calls) |-> [attr |-> unit.calls[i], line_number |-> i]]

\* the entry appended for one call
CallEntry(node) == [type |-> node.attr, line_number |-> node.line_number, arguments |-> <<>>]

\* d[key] = value on a dict: a key already there keeps its place and gets the new value
DictPut(d, key, value) == [k \in DOMAIN d \cup {key} |-> IF k = key THEN value ELSE d[k]]

\* the record analyze_file starts from (lines 223-241) and returns for a
\* blank text (lines 202-220)
EmptyRecord ==
    [data_operations |-> <<>>,
     transformations |-> <<>>,
     dependencies |-> <<>>,
     data_quality_checks |-> <<>>,
     performance_metrics |->
        [partitioning |-> FALSE, caching |-> FALSE, optimization_hints |-> <<>>],
     patterns |->
        [has_data_validation |-> FALSE,
         has_error_handling |-> FALSE,
         has_logging |-> FALSE,
         has_data_quality_checks |-> FALSE,
         has_performance_optimizations |-> FALSE,
         has_documentation |-> FALSE]]

\* visit_call with `caching = True` set for every optimization hint
visit_call_caching_any(analysis, node) ==
    LET a1 == IF node.attr \in DataOperationNames
              THEN [analysis EXCEPT !.data_operations =
                        DictPut(@, node.attr,
                                [line_number |-> node.line_number, arguments |-> <<>>])]
              ELSE analysis
        a2 == IF node.attr \in QualityCheckNames
              THEN [a1 EXCEPT !.data_quality_checks = Append(@, CallEntry(node))]
              ELSE a1
        a3 == IF node.attr \in OptimizationNames
              THEN [a2 EXCEPT
                        !.performance_metrics.optimization_hints = Append(@, CallEntry(node)),
                        !.performance_metrics.caching = TRUE,
                        !.performance_metrics.partitioning =
                            IF node.attr \in {"repartition", "coalesce"} THEN TRUE ELSE @]
              ELSE a2
    IN  a3

\* the three tests of lines 258-282 on one Call node: three separate `if`s
visit_call(analysis, node) ==
    LET a1 == IF node.attr \in DataOperationNames
              THEN [analysis EXCEPT !.data_operations =
                        DictPut(@, node.attr,
                                [line_number |-> node.line_number, arguments |-> <<>>])]
              ELSE analysis
        a2 == IF node.attr \in QualityCheckNames
              THEN [a1 EXCEPT !.data_quality_checks = Append(@, CallEntry(node))]
              ELSE a1
        a3 == IF node.attr \in OptimizationNames
              THEN [a2 EXCEPT
                        !.performance_metrics.optimization_hints = Append(@, CallEntry(node)),
                        !.performance_metrics.caching =
                            IF node.attr \in {"cache", "persist"} THEN TRUE ELSE @,
                        !.performance_metrics.partitioning =
                            IF node.attr \in {"cache", "persist"} THEN @
                            ELSE IF node.attr \in {"repartition", "coalesce"} THEN TRUE ELSE @]
              ELSE a2
    IN  a3

\* lines 285-294 on the i-th assignment whose value is a call
visit_assign(analysis, attr, i) ==
    IF attr \in TransformationNames
    THEN [analysis EXCEPT !.transformations =
            Append(@, [type |-> attr, line_number |-> i,
                       target |-> <<"target", i>>, arguments |-> <<>>])]
    ELSE analysis

\* "Update patterns", lines 297-306
update_patterns(analysis, unit) ==
    [analysis EXCEPT
        !.patterns.has_data_validation = Len(analysis.data_quality_checks) > 0,
        !.patterns.has_performance_optimizations =
            Len(analysis.performance_metrics.optimization_hints) > 0,
        !.patterns.has_error_handling = unit.has_try,
        !.patterns.has_logging =
            \E i \in 1..Len(unit.calls) : unit.calls[i] \in LogLevelNames,
        !.patterns.has_documentation = unit.has_doc]

\* the value of analyze_file when ast.parse raises, line 311
ExtractionError == [error |-> "invalid syntax"]

\* analyze_file whose except branch returns the empty record, not the marker
analyze_file_lenient(unit) ==
    IF unit.syntax = "empty" THEN EmptyRecord
    ELSE IF unit.syntax = "invalid" THEN EmptyRecord
    ELSE LET nodes == CallNodes(unit)
             imported == [EmptyRecord EXCEPT !.dependencies = unit.imports]
             calls[i \in 0..Len(nodes)] ==
                IF i = 0 THEN imported ELSE visit_call(calls[i - 1], nodes[i])
             assigns[i \in 0..Len(unit.assigns)] ==
                IF i = 0 THEN calls[Len(nodes)]
                ELSE visit_assign(assigns[i - 1], unit.assigns[i], i)
         IN  update_patterns(assigns[Len(unit.assigns)], unit)

\* analyze_file: the blank text (lines 200-220), the text that does not parse
\* (lines 309-311) and the walks over the tree (lines 243-308)
analyze_file(unit) ==
    IF unit.syntax = "empty" THEN EmptyRecord
    ELSE IF unit.syntax = "invalid" THEN ExtractionError
    ELSE LET nodes == CallNodes(unit)
             imported == [EmptyRecord EXCEPT !.dependencies = unit.imports]
             calls[i \in 0..Len(nodes)] ==
                IF i = 0 THEN imported ELSE visit_call(calls[i - 1], nodes[i])
             assigns[i \in 0..Len(unit.assigns)] ==
                IF i = 0 THEN calls[Len(nodes)]
                ELSE visit_assign(assigns[i - 1], unit.assigns[i], i)
         IN  update_patterns(assigns[Len(unit.assigns)], unit)

----------------------------------------------------------------------------
(* Validation engine: code_validator *)

\* the severity, type and message of a finding; the message is the file path
\* with the fixed text of the f-string
Finding(type, file_path, text, severity) ==
    [type |-> type, message |-> <<file_path, text>>, severity |-> severity]

\* a compliant entry carries details and no severity
Compliant(type, file_path, text, details) ==
    [type |-> type, message |-> <<file_path, text>>, details |-> details]

IntValue(n) == [kind |-> "int", num |-> n, den |-> 1]
FloatDiv(a, b) == [kind |-> "float", num |-> a, den |-> b]

\* validation_results as initialised at lines 402-413
EmptyResults ==
    [compliant |-> <<>>, violations |-> <<>>, warnings |-> <<>>, suggestions |-> <<>>,
     metrics |-> [overall_compliance |-> IntValue(0),
                  rule_coverage |-> IntValue(0),
                  data_quality_score |-> IntValue(0),
                  performance_score |-> IntValue(0)]]

\* `if blueprint_rules.get(category):` a missing key gives None, and None and
\* the empty list are both false
HasRules(rules, category) == category \in DOMAIN rules /\ Len(rules[category]) > 0

\* code_analysis.get("files", {}).items(), in iteration order
FilesOf(analysis) == IF "files" \in DOMAIN analysis THEN analysis.files ELSE <<>>

\* the gate category each check function reads
GateOfDataQuality == "data_handling"
GateOfPerformance == "performance_guidelines"
GateOfErrorHandling == "error_handling"
GateOfDocumentation == "documentation"
GateOfDataOperations == "data_handling"


\* check_data_quality with the test `not has_data_validation` inverted
data_quality_step_inverted(res, file) ==
    IF file.analysis.patterns.has_data_validation
    THEN [res EXCEPT !.violations =
            Append(@, Finding("data_quality", file.path, "lacks data quality checks", "high"))]
    ELSE [res EXCEPT !.compliant =
            Append(@, Compliant("data_quality", file.path, "has data quality checks",
                                file.analysis.data_quality_checks))]

\* one iteration of the loop of check_data_quality
data_quality_step(res, file) ==
    IF ~file.analysis.patterns.has_data_validation
    THEN [res EXCEPT !.violations =
            Append(@, Finding("data_quality", file.path, "lacks data quality checks", "high"))]
    ELSE [res EXCEPT !.compliant =
            Append(@, Compliant("data_quality", file.path, "has data quality checks",
                                file.analysis.data_quality_checks))]

\* one iteration of the loop of check_performance_optimizations
performance_step(res, file) ==
    IF ~file.analysis.patterns.has_performance_optimizations
    THEN [res EXCEPT !.warnings =
            Append(@, Finding("performance", file.path, "lacks performance optimizations", "medium"))]
    ELSE [res EXCEPT !.compliant =
            Append(@, Compliant("performance", file.path, "has performance optimizations",
                                file.analysis.performance_metrics))]


\* check_error_handling with an else branch that records a compliant entry,
\* as its sibling checks do
error_handling_step_compliant(res, file) ==
    IF ~file.analysis.patterns.has_error_handling
    THEN [res EXCEPT !.violations =
            Append(@, Finding("error_handling", file.path, "lacks proper error handling", "high"))]
    ELSE [res EXCEPT !.compliant =
            Append(@, Compliant("error_handling", file.path, "has error handling", <<>>))]

\* one iteration of the loop of check_error_handling
error_handling_step(res, file) ==
    IF ~file.analysis.patterns.has_error_handling
    THEN [res EXCEPT !.violations =
            Append(@, Finding("error_handling", file.path, "lacks proper error handling", "high"))]
    ELSE res

\* one iteration of the loop of check_documentation
documentation_step(res, file) ==
    IF ~file.analysis.patterns.has_documentation
    THEN [res EXCEPT !.warnings =
            Append(@, Finding("documentation", file.path, "is missing documentation", "medium"))]
    ELSE res

\* one iteration of the loop of check_data_operations; an empty dict is false
data_operations_step(res, file) ==
    IF DOMAIN file.analysis.data_operations = {}
    THEN [res EXCEPT !.warnings =
            Append(@, Finding("data_operations", file.path, "has no data read/write operations", "medium"))]
    ELSE [res EXCEPT !.compliant =
            Append(@, Compliant("data_operations", file.path, "has data operations",
                                file.analysis.data_operations))]

\* In each check, loop[i] is validation_results after the first i iterations of
\* `for file_path, analysis in code_analysis.get("files", {}).items():`

check_data_quality(res, rules, analysis) ==
    IF HasRules(rules, GateOfDataQuality)
    THEN LET files == FilesOf(analysis)
             loop[i \in 0..Len(files)] ==
                IF i = 0 THEN res ELSE data_quality_step(loop[i - 1], files[i])
         IN  loop[Len(files)]
    ELSE res

check_performance_optimizations(res, rules, analysis) ==
    IF HasRules(rules, GateOfPerformance)
    THEN LET files == FilesOf(analysis)
             loop[i \in 0..Len(files)] ==
                IF i = 0 THEN res ELSE performance_step(loop[i - 1], files[i])
         IN  loop[Len(files)]
    ELSE res


\* check_error_handling without its `if blueprint_rules.get(...)` gate
check_error_handling_ungated(res, rules, analysis) ==
    LET files == FilesOf(analysis)
        loop[i \in 0..Len(files)] ==
            IF i = 0 THEN res ELSE error_handling_step(loop[i - 1], files[i])
    IN  loop[Len(files)]

check_error_handling(res, rules, analysis) ==
    IF HasRules(rules, GateOfErrorHandling)
    THEN LET files == FilesOf(analysis)
             loop[i \in 0..Len(files)] ==
                IF i = 0 THEN res ELSE error_handling_step(loop[i - 1], files[i])
         IN  loop[Len(files)]
    ELSE res

check_documentation(res, rules, analysis) ==
    IF HasRules(rules, GateOfDocumentation)
    THEN LET files == FilesOf(analysis)
             loop[i \in 0..Len(files)] ==
                IF i = 0 THEN res ELSE documentation_step(loop[i - 1], files[i])
         IN  loop[Len(files)]
    ELSE res

check_data_operations(res, rules, analysis) ==
    IF HasRules(rules, GateOfDataOperations)
    THEN LET files == FilesOf(analysis)
             loop[i \in 0..Len(files)] ==
                IF i = 0 THEN res ELSE data_operations_step(loop[i - 1], files[i])
         IN  loop[Len(files)]
    ELSE res

\* "Run all checks" with check_data_operations called first
run_all_checks_reordered(rules, analysis) ==
    check_documentation(
      check_error_handling(
        check_performance_optimizations(
          check_data_quality(
            check_data_operations(EmptyResults, rules, analysis),
            rules, analysis),
          rules, analysis),
        rules, analysis),
      rules, analysis)

\* "Run all checks", lines 484-488
run_all_checks(rules, analysis) ==
    check_data_operations(
      check_documentation(
        check_error_handling(
          check_performance_optimizations(
            check_data_quality(EmptyResults, rules, analysis),
            rules, analysis),
          rules, analysis),
        rules, analysis),
      rules, analysis)

\* sum(len(rules) for rules in blueprint_rules.values())
RECURSIVE SumLen(_, _)
SumLen(rules, keys) ==
    IF keys = {} THEN 0
    ELSE LET k == CHOOSE x \in keys : TRUE
         IN  Len(rules[k]) + SumLen(rules, keys \ {k})

total_rules_of(rules) == SumLen(rules, DOMAIN rules)

\* len([c for c in validation_results["compliant"] if c["type"] == type])
CountType(entries, type) == Len(SelectSeq(entries, LAMBDA e : e.type = type))

\* rule_coverage with the warnings left out of the numerator
rule_coverage_of_violations_only(total_violations, total_warnings, total_rules) ==
    FloatDiv(total_violations, total_rules)

\* (total_violations + total_warnings) / total_rules
rule_coverage_of(total_violations, total_warnings, total_rules) ==
    FloatDiv(total_violations + total_warnings, total_rules)

\* overall_compliance clamped at 0, as max(0, 1 - ...)
overall_compliance_of_clamped(total_violations, total_rules) ==
    IF total_violations > total_rules
    THEN FloatDiv(0, total_rules)
    ELSE FloatDiv(total_rules - total_violations, total_rules)

\* 1 - (total_violations / total_rules), written over the one denominator
overall_compliance_of(total_violations, total_rules) ==
    FloatDiv(total_rules - total_violations, total_rules)

\* data_quality_score without the `c["type"] == "data_quality"` filter
data_quality_score_of_unfiltered(compliant, total_files, current) ==
    IF total_files > 0 THEN FloatDiv(Len(compliant), total_files) ELSE current

\* data_quality_compliant / total_files under `if total_files > 0`
data_quality_score_of(compliant, total_files, current) ==
    IF total_files > 0
    THEN FloatDiv(CountType(compliant, "data_quality"), total_files)
    ELSE current

\* performance_score that counts the data_quality entries again
performance_score_of_copied(compliant, total_files, current) ==
    IF total_files > 0
    THEN FloatDiv(CountType(compliant, "data_quality"), total_files)
    ELSE current

\* performance_compliant / total_files under `if total_files > 0`
performance_score_of(compliant, total_files, current) ==
    IF total_files > 0
    THEN FloatDiv(CountType(compliant, "performance"), total_files)
    ELSE current

\* calculate_metrics with the two scores computed outside `if total_rules > 0`
calculate_metrics_scores_ungated(res, rules, analysis) ==
    LET total_rules == total_rules_of(rules)
        total_files == Len(FilesOf(analysis))
        scored == [res EXCEPT
                    !.metrics.data_quality_score =
                        data_quality_score_of(res.compliant, total_files, @),
                    !.metrics.performance_score =
                        performance_score_of(res.compliant, total_files, @)]
    IN  IF total_rules > 0
        THEN [scored EXCEPT
                !.metrics.rule_coverage =
                    rule_coverage_of(Len(res.violations), Len(res.warnings), total_rules),
                !.metrics.overall_compliance =
                    overall_compliance_of(Len(res.violations), total_rules)]
        ELSE scored

\* "Calculate metrics", lines 491-508
calculate_metrics(res, rules, analysis) ==
    LET total_rules == total_rules_of(rules)
        total_violations == Len(res.violations)
        total_warnings == Len(res.warnings)
        total_files == Len(FilesOf(analysis))
    IN  IF total_rules > 0
        THEN [res EXCEPT
                !.metrics.rule_coverage =
                    rule_coverage_of(total_violations, total_warnings, total_rules),
                !.metrics.overall_compliance =
                    overall_compliance_of(total_violations, total_rules),
                !.metrics.data_quality_score =
                    data_quality_score_of(res.compliant, total_files, @),
                !.metrics.performance_score =
                    performance_score_of(res.compliant, total_files, @)]
        ELSE res

\* the value code_validator returns
code_validator(analysis, rules) == calculate_metrics(run_all_checks(rules, analysis), rules, analysis)

----------------------------------------------------------------------------
(* Inputs of a run *)

\* `if "error" not in analysis:` the test code_parser includes a file by, line 355
Included(analysis) == "error" \notin DOMAIN analysis

\* a unit that parses, with calls, assignments and imports
ValidUnit(calls, assigns, imports, has_try, has_doc) ==
    [syntax |-> "valid", calls |-> calls, assigns |-> assigns, imports |-> imports,
     has_try |-> has_try, has_doc |-> has_doc]

\* a unit that parses and holds no assignment and no import
Unit(calls, has_try, has_doc) == ValidUnit(calls, <<>>, <<>>, has_try, has_doc)

\* a text that is blank after preprocessing
BlankUnit ==
    [syntax |-> "empty", calls |-> <<>>, assigns |-> <<>>, imports |-> <<>>,
     has_try |-> FALSE, has_doc |-> FALSE]

\* a text ast.parse rejects
InvalidUnit ==
    [syntax |-> "invalid", calls |-> <<>>, assigns |-> <<>>, imports |-> <<>>,
     has_try |-> FALSE, has_doc |-> FALSE]

\* `record` before analyze_file has returned
NoRecord == [pending |-> TRUE]

\* the source units a codebase is drawn from: every pattern flag occurs set
\* and unset, and no two flags go together in all units
SourceUnits ==
    {Unit(<<>>, FALSE, FALSE),
     Unit(<<"read", "filter", "repartition">>, TRUE, TRUE),
     Unit(<<"filter">>, FALSE, TRUE),
     Unit(<<"read">>, TRUE, FALSE),
     Unit(<<"cache">>, FALSE, FALSE),
     Unit(<<"repartition">>, TRUE, TRUE),
     Unit(<<"filter", "cache">>, TRUE, FALSE),
     Unit(<<>>, TRUE, FALSE),
     Unit(<<>>, FALSE, TRUE)}

PathOf(i) == <<"file", i>>

\* what code_parser returns for a readable directory whose i-th file is units[i]
AnalysisOf(units) ==
    [files |-> [i \in 1..Len(units) |-> [path |-> PathOf(i), analysis |-> analyze_file(units[i])]]]

\* what code_parser returns when the directory walk fails, line 385
ErrorAnalysis == [error |-> "os.walk failed"]

Analyses ==
    {ErrorAnalysis} \cup
    UNION {{AnalysisOf(units) : units \in [1..n -> SourceUnits]} : n \in 0..MaxFiles}

\* the categories a hand-built catalog may hold: the four a check is meant to
\* read and coding_standards, one of the five that no check reads
DrawnCategories ==
    {"data_handling", "performance_guidelines", "error_handling",
     "documentation_requirements", "coding_standards"}

HandBuiltCatalogs ==
    UNION {[present -> {RuleTexts("rule", n) : n \in 0..MaxRules}] : present \in SUBSET DrawnCategories}

\* the blueprint lists document_parser is called with, and the directory
\* listings it falls back to for an empty list
BlueprintLists == {b \in SUBSET Blueprints : Cardinality(b) <= MaxBlueprints}

ParsedCatalogs ==
    {document_parser(files, dir_files) : files \in BlueprintLists, dir_files \in BlueprintLists}

Catalogs == HandBuiltCatalogs \cup ParsedCatalogs

----------------------------------------------------------------------------
(* The state machine *)

\* no call of preprocess_databricks_notebook is part of the run
NoPreprocess ==
    /\ lines = <<>>
    /\ line_index = 0
    /\ processed_lines = <<>>
    /\ in_code_cell = FALSE
    /\ in_markdown = FALSE

\* no call of generate_report is part of the run
NoReport ==
    /\ report = <<>>
    /\ output_file = [exists |-> FALSE, chunks |-> <<>>]
    /\ report_outcome = "none"

\* no directory walk is part of the run
NoTraversal ==
    /\ codebase = <<>>
    /\ to_walk = {}
    /\ pending = <<>>
    /\ opened = {}
    /\ python_files = {}

\* no analyze_file call is part of the run
NoExtraction == source_unit = BlankUnit /\ record = NoRecord

Init ==
    /\ blueprint_rules \in Catalogs
    /\ code_analysis \in Analyses
    /\ validation_results = EmptyResults
    /\ outcome = "none"
    /\ pc = "start"
    /\ NoExtraction
    /\ NoTraversal
    /\ NoReport
    /\ NoPreprocess

\* one call of code_validator: no path of the function raises on these inputs
CodeValidator ==
    /\ pc = "start"
    /\ validation_results' = code_validator(code_analysis, blueprint_rules)
    /\ outcome' = "returned"
    /\ pc' = "validated"
    /\ UNCHANGED <<blueprint_rules, code_analysis, extract_vars, parser_vars, report_vars, preprocess_vars>>

Next == CodeValidator

Spec == Init /\ [][Next]_vars

----------------------------------------------------------------------------
(* Vocabulary of the properties *)

Validated == pc = "validated"

Files == FilesOf(code_analysis)

\* the category is absent from the catalog or maps to an empty rule list
NotEnforced(category) ==
    category \notin DOMAIN blueprint_rules \/ blueprint_rules[category] = <<>>

Enforced(category) == ~NotEnforced(category)

\* the entries of one result list that have the type and are about the file
About(entries, type, path) ==
    SelectSeq(entries, LAMBDA e : e.type = type /\ e.message[1] = path)

\* the number of entries of the type in the three finding lists together
FindingsOfType(type) ==
    CountType(validation_results.compliant, type)
    + CountType(validation_results.violations, type)
    + CountType(validation_results.warnings, type)

\* the file has exactly one finding of the type: one entry of `kind` with the
\* severity, nothing in the other two lists
OnlyFinding(kind, type, path, severity) ==
    LET v == About(validation_results.violations, type, path)
        w == About(validation_results.warnings, type, path)
        c == About(validation_results.compliant, type, path)
    IN  /\ kind = "violation" => Len(v) = 1 /\ v[1].severity = severity /\ Len(w) = 0 /\ Len(c) = 0
        /\ kind = "warning" => Len(w) = 1 /\ w[1].severity = severity /\ Len(v) = 0 /\ Len(c) = 0

\* the file has exactly one finding of the type: a compliant entry with the details
OnlyCompliant(type, path, details) ==
    LET c == About(validation_results.compliant, type, path)
    IN  /\ Len(c) = 1 /\ c[1].details = details
        /\ Len(About(validation_results.violations, type, path)) = 0
        /\ Len(About(validation_results.warnings, type, path)) = 0

\* the file has no finding of the type in any list
NoFinding(type, path) ==
    /\ Len(About(validation_results.compliant, type, path)) = 0
    /\ Len(About(validation_results.violations, type, path)) = 0
    /\ Len(About(validation_results.warnings, type, path)) = 0

\* the category the specification names as the gate of each check
GoverningCategory(type) ==
    CASE type = "data_quality" -> "data_handling"
      [] type = "data_operations" -> "data_handling"
      [] type = "performance" -> "performance_guidelines"
      [] type = "error_handling" -> "error_handling"
      [] type = "documentation" -> "documentation_requirements"

CheckTypes == {"data_quality", "data_operations", "performance", "error_handling", "documentation"}

----------------------------------------------------------------------------
(* Properties of code_validator *)

\* C1: a check whose governing category is absent from the catalog, or maps
\* to an empty rule list, leaves no finding of its type in compliant,
\* violations or warnings.
C1_Gating ==
    Validated =>
        \A type \in CheckTypes :
            NotEnforced(GoverningCategory(type)) => FindingsOfType(type) = 0

\* C1 witness: data_handling absent, performance_guidelines empty, and still
\* error_handling violations for the files of the analysis
C1_Witness ==
    /\ Validated
    /\ "data_handling" \notin DOMAIN blueprint_rules
    /\ "performance_guidelines" \in DOMAIN blueprint_rules
    /\ blueprint_rules["performance_guidelines"] = <<>>
    /\ Len(Files) >= 2
    /\ CountType(validation_results.violations, "error_handling") >= 1

\* C2: under a non-empty documentation_requirements category every file
\* without a leading doc string yields exactly one warning of type
\* documentation with severity medium.
C2_DocumentationWarning ==
    (Validated /\ Enforced("documentation_requirements")) =>
        \A i \in 1..Len(Files) :
            ~Files[i].analysis.patterns.has_documentation
                => OnlyFinding("warning", "documentation", Files[i].path, "medium")

\* C3: an analysis without a files map ends code_validator in a
\* validation-input error, never in a normal result.
C3_FailFast ==
    (Validated /\ "files" \notin DOMAIN code_analysis) => outcome = "ValidationInputError"

\* C4: each of the two-outcome checks that is enabled emits exactly one
\* finding per file: data quality a high violation or a compliant entry with
\* the quality-check list, performance a medium warning or a compliant entry
\* with the performance metrics, data operations a medium warning or a
\* compliant entry with the operations.
C4_TwoOutcomes ==
    Validated =>
        \A i \in 1..Len(Files) :
            LET path == Files[i].path
                rec == Files[i].analysis
            IN  /\ Enforced("data_handling") =>
                    /\ IF Len(rec.data_quality_checks) = 0
                       THEN OnlyFinding("violation", "data_quality", path, "high")
                       ELSE OnlyCompliant("data_quality", path, rec.data_quality_checks)
                    /\ IF DOMAIN rec.data_operations = {}
                       THEN OnlyFinding("warning", "data_operations", path, "medium")
                       ELSE OnlyCompliant("data_operations", path, rec.data_operations)
                /\ Enforced("performance_guidelines") =>
                    IF Len(rec.performance_metrics.optimization_hints) = 0
                    THEN OnlyFinding("warning", "performance", path, "medium")
                    ELSE OnlyCompliant("performance", path, rec.performance_metrics)

\* C4 witness: both categories enforced, one file with quality checks, hints
\* and operations and another with none of them
C4_Witness ==
    /\ Validated
    /\ Enforced("data_handling")
    /\ Enforced("performance_guidelines")
    /\ \E i, j \in 1..Len(Files) :
        /\ Len(Files[i].analysis.data_quality_checks) > 0
        /\ Len(Files[i].analysis.performance_metrics.optimization_hints) > 0
        /\ DOMAIN Files[i].analysis.data_operations # {}
        /\ Len(Files[j].analysis.data_quality_checks) = 0
        /\ Len(Files[j].analysis.performance_metrics.optimization_hints) = 0
        /\ DOMAIN Files[j].analysis.data_operations = {}
    /\ Len(validation_results.compliant) >= 3

\* C5: under a non-empty error_handling category a file without a try
\* construct yields exactly one high violation of type error_handling and a
\* file with one yields no error_handling finding; no compliant entry of that
\* type is ever produced.
C5_ErrorHandling ==
    Validated =>
        /\ CountType(validation_results.compliant, "error_handling") = 0
        /\ Enforced("error_handling") =>
            \A i \in 1..Len(Files) :
                IF ~Files[i].analysis.patterns.has_error_handling
                THEN OnlyFinding("violation", "error_handling", Files[i].path, "high")
                ELSE NoFinding("error_handling", Files[i].path)

\* C5 witness: error_handling enforced, a file with a try construct and a
\* file without one
C5_Witness ==
    /\ Validated
    /\ Enforced("error_handling")
    /\ \E i, j \in 1..Len(Files) :
        /\ Files[i].analysis.patterns.has_error_handling
        /\ ~Files[j].analysis.patterns.has_error_handling
    /\ CountType(validation_results.violations, "error_handling") = 1

----------------------------------------------------------------------------
(* Properties of the metrics *)

Metrics == validation_results.metrics

TotalRules == total_rules_of(blueprint_rules)
ViolationCount == Len(validation_results.violations)
WarningCount == Len(validation_results.warnings)

\* the metric equals a / b
Equals(m, a, b) == m.num * b = a * m.den

\* the metric lies in the closed interval [0,1]
InUnitInterval(m) == 0 <= m.num /\ m.num <= m.den

\* the metric was assigned a computed quotient (a float), not left at its default
Computed(m) == m.kind = "float"

\* C6 as stated: each of the four metrics of every result lies in [0,1].
C6_AllMetricsInUnitInterval ==
    Validated =>
        /\ InUnitInterval(Metrics.overall_compliance)
        /\ InUnitInterval(Metrics.rule_coverage)
        /\ InUnitInterval(Metrics.data_quality_score)
        /\ InUnitInterval(Metrics.performance_score)

\* C6 as amended: data_quality_score and performance_score lie in [0,1];
\* rule_coverage is at least 0 and lies in [0,1] exactly when the violations
\* and warnings together do not outnumber the rules; overall_compliance is at
\* most 1 and lies in [0,1] exactly when the violations do not outnumber the
\* rules.
C6_MetricRanges ==
    Validated =>
        /\ InUnitInterval(Metrics.data_quality_score)
        /\ InUnitInterval(Metrics.performance_score)
        /\ Metrics.rule_coverage.num >= 0
        /\ InUnitInterval(Metrics.rule_coverage) <=> ViolationCount + WarningCount <= TotalRules
        /\ Metrics.overall_compliance.num <= Metrics.overall_compliance.den
        /\ InUnitInterval(Metrics.overall_compliance) <=> ViolationCount <= TotalRules

\* C6 witness: a result whose rule_coverage exceeds 1 and whose
\* overall_compliance is negative, with both scores computed
C6_Witness ==
    /\ Validated
    /\ Metrics.rule_coverage.num > Metrics.rule_coverage.den
    /\ Metrics.overall_compliance.num < 0
    /\ Computed(Metrics.data_quality_score)
    /\ Metrics.data_quality_score.num > 0

\* the example of the specification: one rule each for data_handling and
\* error_handling, one file without quality checks, try construct or operations
ExampleCatalog ==
    [c \in {"data_handling", "error_handling"} |-> RuleTexts("rule", 1)]

ExampleAnalysis == AnalysisOf(<<Unit(<<>>, FALSE, FALSE)>>)

\* C7: with totalRules > 0, rule_coverage = (violations + warnings) /
\* totalRules; the example gives 2 violations, 1 warning and 3/2.
C7_RuleCoverage ==
    Validated =>
        /\ TotalRules > 0 =>
            /\ Computed(Metrics.rule_coverage)
            /\ Equals(Metrics.rule_coverage, ViolationCount + WarningCount, TotalRules)
        /\ (blueprint_rules = ExampleCatalog /\ code_analysis = ExampleAnalysis) =>
            /\ ViolationCount = 2
            /\ CountType(validation_results.violations, "data_quality") = 1
            /\ CountType(validation_results.violations, "error_handling") = 1
            /\ WarningCount = 1
            /\ CountType(validation_results.warnings, "data_operations") = 1
            /\ Equals(Metrics.rule_coverage, 3, 2)

\* C7 witness: the example has been validated
C7_Witness ==
    /\ Validated
    /\ blueprint_rules = ExampleCatalog
    /\ code_analysis = ExampleAnalysis
    /\ Metrics.rule_coverage.num = 3

\* C8: with totalRules > 0, overall_compliance = 1 - violations / totalRules,
\* unclamped: negative exactly when the violations outnumber the rules.
C8_OverallCompliance ==
    (Validated /\ TotalRules > 0) =>
        /\ Computed(Metrics.overall_compliance)
        /\ Equals(Metrics.overall_compliance, TotalRules - ViolationCount, TotalRules)
        /\ Metrics.overall_compliance.num < 0 <=> ViolationCount > TotalRules

\* C8 witness: more violations than rules
C8_Witness ==
    /\ Validated
    /\ TotalRules > 0
    /\ ViolationCount > TotalRules
    /\ Metrics.overall_compliance.num < 0

\* C9: with totalRules = 0 all four metrics keep the default 0, whatever the
\* analysis holds; rule_coverage and overall_compliance are assigned a
\* computed value only when totalRules > 0.
C9_MetricsGated ==
    Validated =>
        /\ TotalRules = 0 => Metrics = [overall_compliance |-> IntValue(0),
                                        rule_coverage |-> IntValue(0),
                                        data_quality_score |-> IntValue(0),
                                        performance_score |-> IntValue(0)]
        /\ Computed(Metrics.rule_coverage) => TotalRules > 0
        /\ Computed(Metrics.overall_compliance) => TotalRules > 0

\* C9 witness: a catalog whose categories are all empty, and an analysis with
\* files that have quality checks
C9_Witness ==
    /\ Validated
    /\ DOMAIN blueprint_rules # {}
    /\ TotalRules = 0
    /\ \E i \in 1..Len(Files) : Files[i].analysis.patterns.has_data_validation

\* C10: with totalRules > 0, data_quality_score = (compliant entries of type
\* data_quality) / files and performance_score = (compliant entries of type
\* performance) / files; both are 0 without files; both lie in [0,1], a file
\* having at most one compliant entry per type.
C10_Scores ==
    (Validated /\ TotalRules > 0) =>
        /\ Len(Files) > 0 =>
            /\ Computed(Metrics.data_quality_score)
            /\ Equals(Metrics.data_quality_score,
                      CountType(validation_results.compliant, "data_quality"), Len(Files))
            /\ Computed(Metrics.performance_score)
            /\ Equals(Metrics.performance_score,
                      CountType(validation_results.compliant, "performance"), Len(Files))
        /\ Len(Files) = 0 =>
            /\ Metrics.data_quality_score = IntValue(0)
            /\ Metrics.performance_score = IntValue(0)
        /\ InUnitInterval(Metrics.data_quality_score)
        /\ InUnitInterval(Metrics.performance_score)
        /\ \A i \in 1..Len(Files) : \A type \in {"data_quality", "performance"} :
            Len(About(validation_results.compliant, type, Files[i].path)) <= 1

\* C10 witness: two files, one compliant for data quality, both for performance
C10_Witness ==
    /\ Validated
    /\ TotalRules > 0
    /\ Len(Files) = 2
    /\ Equals(Metrics.data_quality_score, 1, 2)
    /\ Equals(Metrics.performance_score, 1, 1)

----------------------------------------------------------------------------
(* Order of the findings *)

\* the position in the files map of the file an entry is about
FileIndex(entry) == CHOOSE i \in 1..Len(Files) : Files[i].path = entry.message[1]

\* in the list, every entry of type `first` stands before every entry of type `second`
Precedes(entries, first, second) ==
    \A a, b \in 1..Len(entries) :
        (entries[a].type = first /\ entries[b].type = second) => a < b

\* in the list, the entries of one type are in the iteration order of the files map
InFileOrder(entries) ==
    \A a, b \in 1..Len(entries) :
        (a < b /\ entries[a].type = entries[b].type)
            => FileIndex(entries[a]) < FileIndex(entries[b])

\* C11: the checks run as data-quality, performance, error-handling,
\* documentation, data-operations: data_quality violations precede
\* error_handling violations; performance warnings precede documentation
\* warnings, which precede data_operations warnings; compliant entries come as
\* data_quality, performance, data_operations; within a type the entries
\* follow the iteration order of the files map.
C11_OutputOrder ==
    Validated =>
        /\ Precedes(validation_results.violations, "data_quality", "error_handling")
        /\ Precedes(validation_results.warnings, "performance", "documentation")
        /\ Precedes(validation_results.warnings, "documentation", "data_operations")
        /\ Precedes(validation_results.warnings, "performance", "data_operations")
        /\ Precedes(validation_results.compliant, "data_quality", "performance")
        /\ Precedes(validation_results.compliant, "performance", "data_operations")
        /\ Precedes(validation_results.compliant, "data_quality", "data_operations")
        /\ InFileOrder(validation_results.violations)
        /\ InFileOrder(validation_results.warnings)
        /\ InFileOrder(validation_results.compliant)

\* C11 witness: two files, and every list holds entries of two types
C11_Witness ==
    /\ Validated
    /\ Len(Files) = 2
    /\ CountType(validation_results.violations, "data_quality") = 2
    /\ CountType(validation_results.violations, "error_handling") >= 1
    /\ CountType(validation_results.warnings, "performance") >= 1
    /\ CountType(validation_results.warnings, "data_operations") >= 1
    /\ CountType(validation_results.compliant, "performance") >= 1
    /\ CountType(validation_results.compliant, "data_operations") >= 1

----------------------------------------------------------------------------
(* The extractor alone: one call of analyze_file on a drawn source unit *)

\* the member names a call may have: the lookup tables of analyze_file, a log
\* level and a name of no table
MemberNames ==
    DataOperationNames \cup QualityCheckNames \cup OptimizationNames \cup {"info", "show"}

\* the sequences over a set of at most n elements
SeqsUpTo(S, n) == UNION {[1..k -> S] : k \in 0..n}

ExtractUnits ==
    {BlankUnit, InvalidUnit} \cup
    {ValidUnit(calls, assigns, imports, has_try, has_doc) :
        calls \in SeqsUpTo(MemberNames, MaxCalls),
        assigns \in SeqsUpTo({"select", "collect"}, MaxCalls),
        imports \in {<<>>, <<"os", "pyspark.sql.functions">>},
        has_try \in BOOLEAN, has_doc \in BOOLEAN}

InitExtract ==
    /\ source_unit \in ExtractUnits
    /\ record = NoRecord
    /\ pc = "source"
    /\ blueprint_rules = <<>>
    /\ code_analysis = <<>>
    /\ validation_results = EmptyResults
    /\ outcome = "none"
    /\ NoTraversal
    /\ NoReport
    /\ NoPreprocess

\* one call of analyze_file
AnalyzeFile ==
    /\ pc = "source"
    /\ record' = analyze_file(source_unit)
    /\ pc' = "extracted"
    /\ UNCHANGED <<source_unit, code_analysis, validator_vars, parser_vars, report_vars, preprocess_vars>>

NextExtract == AnalyzeFile

SpecExtract == InitExtract /\ [][NextExtract]_vars

----------------------------------------------------------------------------
(* Properties of analyze_file *)

Extracted == pc = "extracted"

\* a record without error marker whose collections are empty and whose flags are false
AllEmpty(r) ==
    /\ "error" \notin DOMAIN r
    /\ DOMAIN r.data_operations = {}
    /\ r.transformations = <<>>
    /\ r.dependencies = <<>>
    /\ r.data_quality_checks = <<>>
    /\ r.performance_metrics.optimization_hints = <<>>
    /\ ~r.performance_metrics.partitioning
    /\ ~r.performance_metrics.caching
    /\ \A flag \in DOMAIN r.patterns : ~r.patterns[flag]

\* C13 as stated: a text that is blank after preprocessing or is not valid
\* syntax gives a record with empty collections, false flags and no error marker.
C13_BlankOrInvalidGivesEmptyRecord ==
    (Extracted /\ source_unit.syntax \in {"empty", "invalid"}) => AllEmpty(record)

\* C13 as amended: a text that is blank after preprocessing gives the
\* all-empty record without error marker, so the file is included; a text
\* that is not valid syntax gives the error marker, so the file is skipped.
C13_BlankGivesEmptyRecord ==
    Extracted =>
        /\ source_unit.syntax = "empty" => AllEmpty(record) /\ Included(record)
        /\ source_unit.syntax = "invalid" => "error" \in DOMAIN record /\ ~Included(record)

\* C13 witness: analyze_file has returned for a text that does not parse
C13_Witness ==
    /\ Extracted
    /\ source_unit.syntax = "invalid"
    /\ record = ExtractionError

\* the categories in which the record holds the i-th call of the unit
RecordedIn(i) ==
    LET attr == source_unit.calls[i]
    IN  {c \in {"data_operations"} :
            /\ attr \in DOMAIN record.data_operations
            /\ record.data_operations[attr].line_number = i}
        \cup {c \in {"data_quality_checks"} :
            \E k \in 1..Len(record.data_quality_checks) :
                record.data_quality_checks[k].line_number = i}
        \cup {c \in {"optimization_hints"} :
            \E k \in 1..Len(record.performance_metrics.optimization_hints) :
                record.performance_metrics.optimization_hints[k].line_number = i}

\* C14: every call of the unit is recorded in at most one of data operations,
\* data-quality checks and performance hints.
C14_SingleClassification ==
    (Extracted /\ Included(record)) =>
        \A i \in 1..Len(source_unit.calls) : Cardinality(RecordedIn(i)) <= 1

\* the number of occurrences data_operations holds for the kind: the value
\* under a key is one {line_number, arguments} dict
OccurrencesRecorded(kind) == IF kind \in DOMAIN record.data_operations THEN 1 ELSE 0

\* C15: for each operation kind, data_operations holds one entry for every
\* call of that kind in the unit.
C15_EveryOccurrenceKept ==
    (Extracted /\ Included(record)) =>
        \A kind \in DataOperationNames :
            OccurrencesRecorded(kind)
                = Cardinality({i \in 1..Len(source_unit.calls) : source_unit.calls[i] = kind})

\* some hint of the record has one of the types
SomeHint(r, types) ==
    \E k \in 1..Len(r.performance_metrics.optimization_hints) :
        r.performance_metrics.optimization_hints[k].type \in types

\* C16: every record of the extractor has has_data_validation = (there are
\* quality checks), has_performance_optimizations = (there are hints),
\* caching = (some hint is cache or persist) and partitioning = (some hint is
\* repartition or coalesce).
C16_RecordInvariant ==
    (Extracted /\ Included(record)) =>
        /\ record.patterns.has_data_validation <=> Len(record.data_quality_checks) > 0
        /\ record.patterns.has_performance_optimizations
                <=> Len(record.performance_metrics.optimization_hints) > 0
        /\ record.performance_metrics.caching <=> SomeHint(record, {"cache", "persist"})
        /\ record.performance_metrics.partitioning <=> SomeHint(record, {"repartition", "coalesce"})

\* C16 witness: a record with a quality check and a partitioning hint and no caching hint
C16_Witness ==
    /\ Extracted
    /\ Included(record)
    /\ record.patterns.has_data_validation
    /\ record.patterns.has_performance_optimizations
    /\ record.performance_metrics.partitioning
    /\ ~record.performance_metrics.caching

\* ---------------------------------------------------------------------------
\* code_parser: the walk over the codebase directory (src/tools.py 313-396)
\* and validate_codebase_path (src/main.py 23-44)
\*
\* A codebase is a record
\*   dirs    the directories below the root, each the sequence of names that
\*           leads to it from the root; the root itself is <<>>
\*   files   for the root and every directory, the files it holds: a function
\*           from file name to content
\* A file name is [stem, ext]; a content is [readable, unit], where readable
\* is FALSE when open or read raises and unit is what analyze_file sees of
\* the text.  A relative path is the directory followed by the file name.
\* ---------------------------------------------------------------------------

MaxSources == 3
MaxDepth == 2
MaxDirs == 3

exclude_dirs == {"venv", "__pycache__", ".git", ".pytest_cache", ".vscode"}

\* file.endswith('.py')
endswith_py(file) == file.ext = ".py"

\* the names os.walk lists as the sub-directories of root
Subdirs(tree, root) ==
    {dir[Len(dir)] : dir \in {d \in tree.dirs :
        Len(d) = Len(root) + 1 /\ SubSeq(d, 1, Len(root)) = root}}

kept_dirs_unpruned(dirs) == dirs

\* dirs[:] = [d for d in dirs if d not in exclude_dirs]
kept_dirs(dirs) == {d \in dirs : d \notin exclude_dirs}

\* the files validate_codebase_path collects from root downwards
RECURSIVE python_files_under(_, _)
python_files_under(tree, root) ==
    {Append(root, file) : file \in {f \in DOMAIN tree.files[root] : endswith_py(f)}}
    \cup UNION {python_files_under(tree, Append(root, d)) : d \in kept_dirs(Subdirs(tree, root))}

\* the list validate_codebase_path returns, as a set: its order is the
\* order of the walk
validate_codebase_path(tree) == python_files_under(tree, <<>>)

\* codebase_analysis as initialised at lines 314-328
InitialAnalysis ==
    [files |-> <<>>,
     summary |->
        [total_files |-> 0,
         total_transformations |-> 0,
         total_data_operations |-> 0,
         patterns |->
            [files_with_data_validation |-> 0,
             files_with_error_handling |-> 0,
             files_with_logging |-> 0,
             files_with_performance_optimizations |-> 0,
             files_with_documentation |-> 0]]]

\* len() of a dict: the number of its keys
DictLen(d) == Cardinality(DOMAIN d)

\* x += 1 under `if flag`
CountIf(flag, x) == IF flag THEN x + 1 ELSE x

store_analysis_overwriting(codebase_analysis, relative_path, analysis) ==
    [codebase_analysis EXCEPT
        !.files = Append(@, [path |-> relative_path, analysis |-> analysis]),
        !.summary.total_files = @ + 1,
        !.summary.total_transformations = Len(analysis.transformations),
        !.summary.total_data_operations = @ + DictLen(analysis.data_operations),
        !.summary.patterns.files_with_data_validation =
            CountIf(analysis.patterns.has_data_validation, @),
        !.summary.patterns.files_with_error_handling =
            CountIf(analysis.patterns.has_error_handling, @),
        !.summary.patterns.files_with_logging =
            CountIf(analysis.patterns.has_logging, @),
        !.summary.patterns.files_with_performance_optimizations =
            CountIf(analysis.patterns.has_performance_optimizations, @),
        !.summary.patterns.files_with_documentation =
            CountIf(analysis.patterns.has_documentation, @)]

\* lines 356-373: store the analysis under a path not yet in the map and
\* update the summary
store_analysis(codebase_analysis, relative_path, analysis) ==
    [codebase_analysis EXCEPT
        !.files = Append(@, [path |-> relative_path, analysis |-> analysis]),
        !.summary.total_files = @ + 1,
        !.summary.total_transformations = @ + Len(analysis.transformations),
        !.summary.total_data_operations = @ + DictLen(analysis.data_operations),
        !.summary.patterns.files_with_data_validation =
            CountIf(analysis.patterns.has_data_validation, @),
        !.summary.patterns.files_with_error_handling =
            CountIf(analysis.patterns.has_error_handling, @),
        !.summary.patterns.files_with_logging =
            CountIf(analysis.patterns.has_logging, @),
        !.summary.patterns.files_with_performance_optimizations =
            CountIf(analysis.patterns.has_performance_optimizations, @),
        !.summary.patterns.files_with_documentation =
            CountIf(analysis.patterns.has_documentation, @)]

process_file_counting_failures(codebase_analysis, relative_path, content) ==
    IF ~content.readable
    THEN [codebase_analysis EXCEPT !.summary.total_files = @ + 1]
    ELSE LET analysis == analyze_file(content.unit)
         IN  IF Included(analysis)
             THEN store_analysis(codebase_analysis, relative_path, analysis)
             ELSE [codebase_analysis EXCEPT !.summary.total_files = @ + 1]

\* lines 347-381, the body of the loop for one .py file: a file that cannot
\* be read raises into the inner except, a file whose analysis holds "error"
\* is skipped, any other is stored
process_file(codebase_analysis, relative_path, content) ==
    IF ~content.readable
    THEN codebase_analysis
    ELSE LET analysis == analyze_file(content.unit)
         IN  IF Included(analysis)
             THEN store_analysis(codebase_analysis, relative_path, analysis)
             ELSE codebase_analysis

\* nothing is being walked
NoDirectory == [root |-> <<>>, files |-> {}]

\* main calls validate_codebase_path before the crew runs code_parser
ValidateCodebasePath ==
    /\ pc = "validate"
    /\ python_files' = validate_codebase_path(codebase)
    /\ pc' = IF python_files' = {} THEN "rejected" ELSE "validated"
    /\ UNCHANGED <<codebase, to_walk, pending, opened, code_analysis,
                   validator_vars, extract_vars, report_vars, preprocess_vars>>

\* lines 313-337: code_parser up to the call of os.walk
StartCodeParser ==
    /\ pc = "validated"
    /\ code_analysis' = InitialAnalysis
    /\ to_walk' = {<<>>}
    /\ pending' = NoDirectory
    /\ pc' = "walk"
    /\ UNCHANGED <<codebase, opened, python_files, validator_vars, extract_vars, report_vars, preprocess_vars>>

\* lines 338-340: os.walk yields a directory and has its sub-directories
\* pruned.  os.walk goes depth first and lists a directory in the order of
\* the file system; here any directory still to walk may come next, which
\* allows every order os.walk can take.
WalkDir ==
    /\ pc = "walk"
    /\ pending.files = {}
    /\ \E root \in to_walk :
        /\ to_walk' = (to_walk \ {root}) \cup
                        {Append(root, d) : d \in kept_dirs(Subdirs(codebase, root))}
        /\ pending' = [root |-> root, files |-> DOMAIN codebase.files[root]]
    /\ UNCHANGED <<codebase, opened, python_files, code_analysis, pc,
                   validator_vars, extract_vars, report_vars, preprocess_vars>>

\* lines 342-381: one turn of `for file in files`
ProcessFile ==
    /\ pc = "walk"
    /\ \E file \in pending.files :
        LET relative_path == Append(pending.root, file)
        IN  /\ pending' = [pending EXCEPT !.files = @ \ {file}]
            /\ opened' = IF endswith_py(file) THEN opened \cup {relative_path} ELSE opened
            /\ code_analysis' =
                 IF endswith_py(file)
                 THEN process_file(code_analysis, relative_path,
                                   codebase.files[pending.root][file])
                 ELSE code_analysis
    /\ UNCHANGED <<codebase, to_walk, python_files, pc, validator_vars, extract_vars, report_vars, preprocess_vars>>

\* lines 387-396: the walk is over
ReturnAnalysis ==
    /\ pc = "walk"
    /\ to_walk = {}
    /\ pending.files = {}
    /\ pc' = "parsed"
    /\ UNCHANGED <<codebase, to_walk, pending, opened, python_files, code_analysis,
                   validator_vars, extract_vars, report_vars, preprocess_vars>>

NextParser == ValidateCodebasePath \/ StartCodeParser \/ WalkDir \/ ProcessFile \/ ReturnAnalysis

\* what every run of the walk starts from, whatever the codebase
InitWalk ==
    /\ pc = "validate"
    /\ code_analysis = <<>>
    /\ to_walk = {}
    /\ pending = NoDirectory
    /\ opened = {}
    /\ python_files = {}
    /\ blueprint_rules = <<>>
    /\ validation_results = EmptyResults
    /\ outcome = "none"
    /\ NoExtraction
    /\ NoReport
    /\ NoPreprocess

Readable(unit) == [readable |-> TRUE, unit |-> unit]
Unreadable == [readable |-> FALSE, unit |-> BlankUnit]
PyFile(i) == [stem |-> i, ext |-> ".py"]
TextFile(i) == [stem |-> i, ext |-> ".txt"]

\* the contents a file of the flat codebase may have: texts with different
\* counts of transformations and data operations and different flags, a
\* blank text, a text that does not parse, a file that cannot be read
ParserContents ==
    {Readable(ValidUnit(<<"read", "filter">>, <<"select">>, <<>>, TRUE, TRUE)),
     Readable(ValidUnit(<<"read", "write", "cache", "info">>, <<"select", "join">>,
                        <<"os">>, FALSE, FALSE)),
     Readable(BlankUnit),
     Readable(InvalidUnit),
     Unreadable}

\* the codebases with no sub-directory: up to MaxSources .py files and
\* possibly a file that is not a .py file
FlatCodebases ==
    UNION {{[dirs |-> {}, files |-> (<<>> :> (listing @@ other))] :
              listing \in [names -> ParserContents],
              other \in {<<>>, TextFile(1) :> Readable(BlankUnit)}} :
           names \in SUBSET {PyFile(i) : i \in 1..MaxSources}}

InitParser ==
    /\ codebase \in FlatCodebases
    /\ InitWalk

SpecParser == InitParser /\ [][NextParser]_vars

\* ---------------------------------------------------------------------------
\* Properties of the code_parser loop
\* ---------------------------------------------------------------------------

\* code_parser has initialised its result
Parsing == pc \in {"walk", "parsed"}

\* the files map built so far, in insertion order
Mapped == IF Parsing THEN code_analysis.files ELSE <<>>

DirOf(path) == SubSeq(path, 1, Len(path) - 1)
NameOf(path) == path[Len(path)]
ContentOf(path) == codebase.files[DirOf(path)][NameOf(path)]

\* no directory on the way from the root to dir, dir included, is pruned
NotPruned(dir) == \A i \in 1..Len(dir) : dir[i] \notin exclude_dirs

\* the .py files of the codebase the walk is to handle
SourcePaths ==
    UNION {{Append(dir, f) : f \in {g \in DOMAIN codebase.files[dir] : endswith_py(g)}} :
           dir \in {d \in codebase.dirs \cup {<<>>} : NotPruned(d)}}

\* os.walk has yielded dir
Walked(dir) == Parsing /\ \A i \in 0..Len(dir) : SubSeq(dir, 1, i) \notin to_walk

\* the source files the loop has handled so far
HandledPaths ==
    {p \in SourcePaths :
        /\ Walked(DirOf(p))
        /\ ~(pending.root = DirOf(p) /\ NameOf(p) \in pending.files)}

\* the file was read and its extraction returned no error marker
NoErrorMarker(path) ==
    /\ ContentOf(path).readable
    /\ "error" \notin DOMAIN analyze_file(ContentOf(path).unit)

\* the sum of the values of a function with a finite domain
RECURSIVE SumFn(_)
SumFn(f) ==
    IF DOMAIN f = {} THEN 0
    ELSE LET x == CHOOSE y \in DOMAIN f : TRUE
         IN  f[x] + SumFn([y \in DOMAIN f \ {x} |-> f[y]])

Flagged(flag) == [i \in 1..Len(Mapped) |-> IF Mapped[i].analysis.patterns[flag] THEN 1 ELSE 0]

\* the summary is the sum over the files map
SummaryIsSumOverMap ==
    LET summary == code_analysis.summary
    IN  /\ summary.total_files = Len(Mapped)
        /\ summary.total_transformations =
             SumFn([i \in 1..Len(Mapped) |-> Len(Mapped[i].analysis.transformations)])
        /\ summary.total_data_operations =
             SumFn([i \in 1..Len(Mapped) |->
                      Cardinality(DOMAIN Mapped[i].analysis.data_operations)])
        /\ summary.patterns.files_with_data_validation = SumFn(Flagged("has_data_validation"))
        /\ summary.patterns.files_with_error_handling = SumFn(Flagged("has_error_handling"))
        /\ summary.patterns.files_with_logging = SumFn(Flagged("has_logging"))
        /\ summary.patterns.files_with_performance_optimizations =
             SumFn(Flagged("has_performance_optimizations"))
        /\ summary.patterns.files_with_documentation = SumFn(Flagged("has_documentation"))

\* the files map holds each handled file without an error marker once, with
\* its record, and no other file
MapIsIncludedFiles ==
    /\ {Mapped[i].path : i \in 1..Len(Mapped)} = {p \in HandledPaths : NoErrorMarker(p)}
    /\ \A i, j \in 1..Len(Mapped) : Mapped[i].path = Mapped[j].path => i = j
    /\ \A i \in 1..Len(Mapped) :
         Mapped[i].analysis = analyze_file(ContentOf(Mapped[i].path).unit)

\* the loop is never stuck, and what it returns is a result, not an error
RunCompletes ==
    /\ pc = "walk" => ENABLED NextParser
    /\ pc = "parsed" => DOMAIN code_analysis = {"files", "summary"}

C12_Aggregate == Parsing => (MapIsIncludedFiles /\ SummaryIsSumOverMap /\ RunCompletes)

\* a turn of the loop on a file that fails to read or to extract
C12_FailedFileStep ==
    \A file \in pending.files :
        (/\ pc = "walk"
         /\ pending' = [pending EXCEPT !.files = @ \ {file}]
         /\ endswith_py(file)
         /\ ~NoErrorMarker(Append(pending.root, file)))
        => code_analysis' = code_analysis

\* C12: at every point of the code_parser loop, whatever files failed to read
\* or to extract, the run goes on to completion, the files map holds exactly
\* the handled files whose extraction returned no error marker, total_files
\* is the size of the map, total_transformations and total_data_operations
\* are the sums over the mapped files of their transformation and
\* data-operation counts, each files_with_<pattern> is the number of mapped
\* files with that flag; a turn on a failed file changes neither the map
\* nor a counter.
C12_AggregationInvariant == [](C12_Aggregate) /\ [][C12_FailedFileStep]_vars

\* a finished run with an unreadable file, a file that does not parse and
\* a mapped file with transformations
C12_Witness ==
    /\ pc = "parsed"
    /\ \E p \in SourcePaths : ~ContentOf(p).readable
    /\ \E p \in SourcePaths : ContentOf(p) = Readable(InvalidUnit)
    /\ Len(Mapped) >= 1
    /\ code_analysis.summary.total_transformations >= 1

\* the files map as a mapping: the record under each key, whatever the
\* order of insertion
AsMapping(entries) ==
    [p \in {entries[i].path : i \in 1..Len(entries)} |->
        entries[CHOOSE i \in 1..Len(entries) : entries[i].path = p].analysis]

\* the files map the codebase determines, whatever the order of the walk
ReferenceMapping ==
    [p \in {q \in SourcePaths : NoErrorMarker(q)} |-> analyze_file(ContentOf(p).unit)]

ReferenceFlagged(flag) ==
    [p \in DOMAIN ReferenceMapping |-> IF ReferenceMapping[p].patterns[flag] THEN 1 ELSE 0]

\* the summary the codebase determines, whatever the order of the walk
ReferenceSummary ==
    [total_files |-> Cardinality(DOMAIN ReferenceMapping),
     total_transformations |->
        SumFn([p \in DOMAIN ReferenceMapping |-> Len(ReferenceMapping[p].transformations)]),
     total_data_operations |->
        SumFn([p \in DOMAIN ReferenceMapping |->
                 Cardinality(DOMAIN ReferenceMapping[p].data_operations)]),
     patterns |->
        [files_with_data_validation |-> SumFn(ReferenceFlagged("has_data_validation")),
         files_with_error_handling |-> SumFn(ReferenceFlagged("has_error_handling")),
         files_with_logging |-> SumFn(ReferenceFlagged("has_logging")),
         files_with_performance_optimizations |->
            SumFn(ReferenceFlagged("has_performance_optimizations")),
         files_with_documentation |-> SumFn(ReferenceFlagged("has_documentation"))]]

\* C18: in whatever order the directories and files of a codebase are
\* handled, code_parser ends with the summary counters and with the files
\* map, taken as a mapping, that the set of files alone determines; two runs
\* over the same files differ at most in the order of the map.
C18_OrderIndependent ==
    pc = "parsed" =>
        /\ AsMapping(code_analysis.files) = ReferenceMapping
        /\ code_analysis.summary = ReferenceSummary

\* a finished run that stored three files with different counts in an order
\* that is not the order of their names
C18_Witness ==
    /\ pc = "parsed"
    /\ Len(Mapped) = 3
    /\ Mapped[1].path[1].stem > Mapped[2].path[1].stem
    /\ Mapped[2].path[1].stem < Mapped[3].path[1].stem
    /\ Len(Mapped[1].analysis.transformations) # Len(Mapped[2].analysis.transformations)
    /\ Len(Mapped[2].analysis.transformations) # Len(Mapped[3].analysis.transformations)

\* ---------------------------------------------------------------------------
\* The walk over a tree of directories
\* ---------------------------------------------------------------------------

\* the names a directory may have: the excluded ones, one that differs from
\* an excluded one in case only, and an ordinary one
DirNames == exclude_dirs \cup {"Venv", "pkg"}

\* the sets of at most n directories, none deeper than MaxDepth, that hold
\* the parent of each of their members
RECURSIVE DirTrees(_)
DirTrees(n) ==
    IF n = 0 THEN {{}}
    ELSE LET smaller == DirTrees(n - 1)
         IN  smaller \cup
             UNION {{dirs \cup {Append(parent, name)} :
                        parent \in {p \in dirs \cup {<<>>} : Len(p) < MaxDepth},
                        name \in DirNames} :
                    dirs \in smaller}

\* the codebases with sub-directories: the root and each directory hold one
\* .py file and one file that is not a .py file
TreeCodebases ==
    {[dirs |-> dirs,
      files |-> [dir \in dirs \cup {<<>>} |->
                    (PyFile(1) :> Readable(ValidUnit(<<"read">>, <<"select">>, <<>>, FALSE, TRUE)))
                    @@ (TextFile(1) :> Readable(BlankUnit))]] :
     dirs \in DirTrees(MaxDirs)}

InitTree ==
    /\ codebase \in TreeCodebases
    /\ InitWalk

SpecTree == InitTree /\ [][NextParser]_vars

\* the directory names the exclusion is stated for
ExcludedNames == {"venv", "__pycache__", ".git", ".pytest_cache", ".vscode"}

\* the directory, or one between the root and it, has an excluded name
ThroughExcluded(dir) == \E i \in 1..Len(dir) : dir[i] \in ExcludedNames

\* the file lies below a directory with an excluded name
UnderExcluded(path) == ThroughExcluded(DirOf(path))

\* the paths of the .py files in the directories that are under no excluded one
FilesOutsideExcluded ==
    {Append(dir, f) : dir \in {d \in codebase.dirs \cup {<<>>} : ~ThroughExcluded(d)},
                      f \in {PyFile(1)}}

\* C17: during the walk of code_parser and in the list of
\* validate_codebase_path, no file below a directory named venv,
\* __pycache__, .git, .pytest_cache or .vscode, at any depth under the root,
\* is opened, analyzed, put in the files map or listed; a directory whose
\* name differs from these in case is walked like any other.
C17_DirectoryExclusion ==
    /\ \A path \in opened \cup python_files \cup DOMAIN AsMapping(Mapped) : ~UnderExcluded(path)
    /\ pc \in {"validated", "walk", "parsed"} => FilesOutsideExcluded \subseteq python_files
    /\ pc = "parsed" =>
         /\ FilesOutsideExcluded \subseteq opened
         /\ FilesOutsideExcluded \subseteq DOMAIN AsMapping(Mapped)

\* a finished walk of a tree with an excluded directory inside an ordinary
\* one and a directory named Venv, whose file is in the files map
C17_Witness ==
    /\ pc = "parsed"
    /\ \E dir \in codebase.dirs : Len(dir) = 2 /\ dir[1] = "pkg" /\ dir[2] \in ExcludedNames
    /\ <<"Venv">> \in codebase.dirs
    /\ <<"Venv", PyFile(1)>> \in opened \cap python_files \cap DOMAIN AsMapping(Mapped)

\* ---------------------------------------------------------------------------
\* generate_report (src/tools.py 513-574)
\* ---------------------------------------------------------------------------

\* the entry the report keeps of a violation or a warning, lines 526-530
finding_entry(v) == [type |-> v.type, message |-> v.message, severity |-> v.severity]

\* the entry the report keeps of a compliant entry, lines 542-546:
\* c.get("details", {})
compliant_entry(c) ==
    [type |-> c.type, message |-> c.message,
     details |-> IF "details" \in DOMAIN c THEN c.details ELSE <<>>]

by_type_of_presence(entries) ==
    [t \in {entries[i].type : i \in 1..Len(entries)} |-> 1]

\* lines 561-568: by_type[e["type"]] = by_type.get(e["type"], 0) + 1 for
\* each entry in turn
by_type_of(entries) ==
    LET loop[i \in 0..Len(entries)] ==
            IF i = 0 THEN <<>>
            ELSE LET by_type == loop[i - 1]
                     type == entries[i].type
                 IN  DictPut(by_type, type,
                             (IF type \in DOMAIN by_type THEN by_type[type] ELSE 0) + 1)
    IN  loop[Len(entries)]

\* lines 517-568: the report built from validation_results at time now
report_of(results, now) ==
    [timestamp |-> now,
     metrics |->
        [overall_compliance |-> results.metrics.overall_compliance,
         rule_coverage |-> results.metrics.rule_coverage,
         data_quality_score |-> results.metrics.data_quality_score,
         performance_score |-> results.metrics.performance_score],
     violations |-> [i \in 1..Len(results.violations) |-> finding_entry(results.violations[i])],
     warnings |-> [i \in 1..Len(results.warnings) |-> finding_entry(results.warnings[i])],
     compliant |-> [i \in 1..Len(results.compliant) |-> compliant_entry(results.compliant[i])],
     suggestions |-> results.suggestions,
     summary |->
        [total_violations |-> Len(results.violations),
         total_warnings |-> Len(results.warnings),
         total_compliant |-> Len(results.compliant),
         violations_by_type |-> by_type_of(results.violations),
         warnings_by_type |-> by_type_of(results.warnings),
         compliant_by_type |-> by_type_of(results.compliant)]]

\* the keys of the report in the order json.dump writes them
ReportKeys ==
    <<"timestamp", "metrics", "violations", "warnings", "compliant", "suggestions", "summary">>

\* json.dump(report, f, indent=2): the text goes to the file piece by
\* piece, here one piece per key of the report
dump_chunks(document) == [i \in 1..Len(ReportKeys) |-> <<ReportKeys[i], document[ReportKeys[i]]>>]

\* the file at output_path
NoFile == [exists |-> FALSE, chunks |-> <<>>]
FileWith(chunks) == [exists |-> TRUE, chunks |-> chunks]

\* where a call may fail: open raises, or a write of json.dump raises after
\* `written` pieces went to the file, or nothing fails
Faults ==
    {[at |-> "open", written |-> 0], [at |-> "none", written |-> Len(ReportKeys)]}
    \cup {[at |-> "dump", written |-> k] : k \in 0..(Len(ReportKeys) - 1)}

\* lines 571-572: open(output_path, 'w') truncates or creates the file as
\* soon as it succeeds, json.dump then appends piece by piece, and an
\* exception leaves whatever was written
write_report(before, document, fault) ==
    IF fault.at = "open" THEN before
    ELSE FileWith(SubSeq(dump_chunks(document), 1, fault.written))

\* datetime.now().isoformat() of two calls
Timestamps == {"t1", "t2"}

\* one call of generate_report
GenerateReport ==
    /\ pc = "validated"
    /\ \E now \in Timestamps, fault \in Faults :
        /\ report' = report_of(validation_results, now)
        /\ output_file' = write_report(output_file, report', fault)
        /\ report_outcome' = IF fault.at = "none" THEN "returned" ELSE "raised"
    /\ pc' = "reported"
    /\ UNCHANGED <<blueprint_rules, code_analysis, validation_results, outcome,
                   extract_vars, parser_vars, preprocess_vars>>

NextReport == GenerateReport

\* the source units the validated codebases of the report are drawn from
ReportUnits ==
    {Unit(<<>>, FALSE, FALSE),
     Unit(<<"read", "filter", "repartition">>, TRUE, TRUE),
     Unit(<<"filter">>, FALSE, TRUE)}

\* what code_validator hands to generate_report
ReportInputs ==
    {code_validator(AnalysisOf(units), rules) :
        units \in SeqsUpTo(ReportUnits, MaxFiles), rules \in HandBuiltCatalogs}

\* generate_report is called with a result of code_validator; output_path
\* names no file or the complete report of an earlier run
InitReport ==
    /\ validation_results \in ReportInputs
    /\ output_file \in {NoFile, FileWith(dump_chunks(report_of(EmptyResults, "t0")))}
    /\ report = <<>>
    /\ report_outcome = "none"
    /\ pc = "validated"
    /\ blueprint_rules = <<>>
    /\ code_analysis = <<>>
    /\ outcome = "returned"
    /\ NoExtraction
    /\ NoTraversal
    /\ NoPreprocess

SpecReport == InitReport /\ [][NextReport]_vars

\* ---------------------------------------------------------------------------
\* Properties of generate_report
\* ---------------------------------------------------------------------------

Reported == pc = "reported"

\* the file holds a document that is not whole
Incomplete(file) == file.exists /\ Len(file.chunks) < Len(ReportKeys)

\* C19: a call of generate_report either persists the complete document at
\* output_path and returns, or raises and leaves no partial or truncated
\* file at output_path; no call has failed with an incomplete document at
\* output_path.
C19_AtomicWrite ==
    Reported =>
        /\ report_outcome = "returned" => output_file = FileWith(dump_chunks(report))
        /\ report_outcome = "raised" => ~Incomplete(output_file)

\* the number of entries of the list with the type
EntriesOfType(entries, type) == Cardinality({i \in 1..Len(entries) : entries[i].type = type})

\* the tally counts the entries of the list type by type, holds no type
\* that does not occur, and adds up to the total, the length of the list
TallyOf(tally, total, entries) ==
    /\ DOMAIN tally = {entries[i].type : i \in 1..Len(entries)}
    /\ \A t \in DOMAIN tally : tally[t] = EntriesOfType(entries, t) /\ tally[t] > 0
    /\ SumFn(tally) = total
    /\ total = Len(entries)

\* the list of the report has the entries of the list of the
\* ValidationResult, one for one and in their order
SameEntries(listed, entries, fields) ==
    /\ Len(listed) = Len(entries)
    /\ \A i \in 1..Len(entries) : \A field \in fields : listed[i][field] = entries[i][field]

\* C20: in the document generate_report builds, for violations, warnings
\* and compliant each on its own, the by-type tally maps every type to the
\* number of entries of the list with that type, holds no type with count 0,
\* and sums to total_violations / total_warnings / total_compliant, which is
\* the length of the list; the three lists have the entries of the
\* ValidationResult in the same number and order.
C20_ReportTallies ==
    Reported =>
        LET summary == report.summary
        IN  /\ TallyOf(summary.violations_by_type, summary.total_violations, report.violations)
            /\ TallyOf(summary.warnings_by_type, summary.total_warnings, report.warnings)
            /\ TallyOf(summary.compliant_by_type, summary.total_compliant, report.compliant)
            /\ SameEntries(report.violations, validation_results.violations,
                           {"type", "message", "severity"})
            /\ SameEntries(report.warnings, validation_results.warnings,
                           {"type", "message", "severity"})
            /\ SameEntries(report.compliant, validation_results.compliant,
                           {"type", "message", "details"})

\* a report whose violations are of two types, one of them twice, whose
\* warnings are of two types and which has a compliant entry
C20_Witness ==
    /\ Reported
    /\ Cardinality(DOMAIN report.summary.violations_by_type) = 2
    /\ \E t \in DOMAIN report.summary.violations_by_type :
         report.summary.violations_by_type[t] = 2
    /\ Cardinality(DOMAIN report.summary.warnings_by_type) = 2
    /\ report.summary.total_compliant >= 1

\* ---------------------------------------------------------------------------
\* preprocess_databricks_notebook (src/tools.py 132-190)
\*
\* A text is a sequence of pieces, each a run of characters that the
\* function never looks into: " " is white space, "# " the start of a
\* comment, "In[" and "Out[" what follows it in a cell marker,
\* "%% [markdown]" what follows it in a markdown marker, "%python", "%run",
\* "%md", "%sql" and "%pip" magic words, "x" code.  A line is a text
\* without a line break; `lines` is content.split('\n') and the value
\* returned, '\n'.join(processed_lines), is given by processed_lines.
\* ---------------------------------------------------------------------------

MaxLines == 3

\* the pieces whose first character is '%'
PercentPieces == {"%python", "%run", "%md", "%sql", "%pip", "%% [markdown]"}

\* str.strip(): the text without its leading and trailing white space
strip(text) ==
    LET inked == {i \in 1..Len(text) : text[i] # " "}
    IN  IF inked = {} THEN <<>>
        ELSE SubSeq(text,
                    CHOOSE i \in inked : \A j \in inked : i <= j,
                    CHOOSE i \in inked : \A j \in inked : j <= i)

\* str.startswith(prefix) for a prefix made of whole pieces
startswith(text, prefix) ==
    Len(prefix) <= Len(text) /\ SubSeq(text, 1, Len(prefix)) = prefix

\* str.startswith('%')
startswith_percent(text) == text # <<>> /\ text[1] \in PercentPieces

\* `not line.strip()`, lines 148 and 187
is_blank(line) == strip(line) = <<>>

\* line 152
is_cell_marker(line) ==
    startswith(strip(line), <<"# ", "In[">>) \/ startswith(strip(line), <<"# ", "Out[">>)

\* line 158
is_markdown_marker(line) == startswith(strip(line), <<"# ", "%% [markdown]">>)

\* line 168
is_magic(line) == startswith_percent(strip(line))

\* line 170
is_skipped_magic(line) ==
    \E magic \in {"%run", "%md", "%sql"} : startswith(strip(line), <<magic>>)

\* line 172
is_python_magic(line) == startswith(strip(line), <<"%python">>)

\* line 174: line.strip()[7:].strip(), "%python" being seven characters
python_code(line) == strip(SubSeq(strip(line), 2, Len(strip(line))))

\* line 180, without the flag
is_comment(line) == startswith(strip(line), <<"# ">>)

\* lines 147-188: one turn of the loop on a state
\* [processed_lines, in_code_cell, in_markdown]
preprocess_line(state, line) ==
    IF is_blank(line) THEN state
    ELSE IF is_cell_marker(line)
    THEN [state EXCEPT !.in_code_cell = TRUE, !.in_markdown = FALSE]
    ELSE IF is_markdown_marker(line)
    THEN [state EXCEPT !.in_code_cell = FALSE, !.in_markdown = TRUE]
    ELSE IF state.in_markdown THEN state
    ELSE IF is_magic(line)
    THEN IF is_skipped_magic(line) THEN state
         ELSE IF is_python_magic(line) /\ python_code(line) # <<>>
         THEN [state EXCEPT !.processed_lines = Append(@, python_code(line))]
         ELSE state
    ELSE IF is_comment(line) /\ ~state.in_code_cell THEN state
    ELSE [state EXCEPT
            !.processed_lines = Append(@, line),
            !.in_code_cell = IF is_blank(line) THEN FALSE ELSE @]

\* one turn of `for line in lines`
PreprocessLine ==
    /\ pc = "lines"
    /\ line_index < Len(lines)
    /\ LET after == preprocess_line(
                        [processed_lines |-> processed_lines,
                         in_code_cell |-> in_code_cell,
                         in_markdown |-> in_markdown],
                        lines[line_index + 1])
       IN  /\ processed_lines' = after.processed_lines
           /\ in_code_cell' = after.in_code_cell
           /\ in_markdown' = after.in_markdown
    /\ line_index' = line_index + 1
    /\ UNCHANGED <<lines, pc, code_analysis, validator_vars, extract_vars, parser_vars,
                   report_vars>>

\* line 190: the loop is over and the kept lines are returned
ReturnProcessed ==
    /\ pc = "lines"
    /\ line_index = Len(lines)
    /\ pc' = "preprocessed"
    /\ UNCHANGED <<preprocess_vars, code_analysis, validator_vars, extract_vars,
                   parser_vars, report_vars>>

NextPreprocess == PreprocessLine \/ ReturnProcessed

\* the lines a notebook is made of: blank lines, the markers, magic lines
\* with and without code, comments and code, some of them indented
NotebookLines ==
    {<<>>,
     <<" ">>,
     <<"# ", "In[">>,
     <<" ", "# ", "Out[">>,
     <<"# ", "%% [markdown]">>,
     <<"%run", " ", "x">>,
     <<"%pip", " ", "x">>,
     <<"%python">>,
     <<"%python", " ", "x">>,
     <<" ", "%python", " ", "x", " ">>,
     <<"%python", " ", "%run", " ", "x">>,
     <<"# ", "x">>,
     <<"x">>,
     <<" ", "x", " ">>}

InitPreprocess ==
    /\ lines \in SeqsUpTo(NotebookLines, MaxLines)
    /\ line_index = 0
    /\ processed_lines = <<>>
    /\ in_code_cell = FALSE
    /\ in_markdown = FALSE
    /\ pc = "lines"
    /\ blueprint_rules = <<>>
    /\ code_analysis = <<>>
    /\ validation_results = EmptyResults
    /\ outcome = "none"
    /\ NoExtraction
    /\ NoTraversal
    /\ NoReport

SpecPreprocess == InitPreprocess /\ [][NextPreprocess]_vars

\* ---------------------------------------------------------------------------
\* Properties of preprocess_databricks_notebook
\* ---------------------------------------------------------------------------

\* a cell marker was taken before line i and no markdown marker since
InCodeCellAt(i) ==
    \E j \in 1..(i - 1) :
        /\ is_cell_marker(lines[j])
        /\ \A k \in (j + 1)..(i - 1) : ~is_markdown_marker(lines[k])

\* line i lies between a markdown marker and the next cell marker
InMarkdownAt(i) ==
    \E j \in 1..(i - 1) :
        /\ is_markdown_marker(lines[j])
        /\ \A k \in (j + 1)..(i - 1) : ~is_cell_marker(lines[k])

\* what line i is to contribute to the output
Contribution(i) ==
    LET line == lines[i]
    IN  IF is_blank(line) \/ is_cell_marker(line) \/ is_markdown_marker(line)
           \/ InMarkdownAt(i)
        THEN <<>>
        ELSE IF is_magic(line)
        THEN IF is_python_magic(line) /\ python_code(line) # <<>>
             THEN <<python_code(line)>>
             ELSE <<>>
        ELSE IF is_comment(line) /\ ~InCodeCellAt(i) THEN <<>>
        ELSE <<line>>

\* the contributions of the first n lines, in the order of the lines
Contributions(n) ==
    LET upto[i \in 0..n] == IF i = 0 THEN <<>> ELSE upto[i - 1] \o Contribution(i)
    IN  upto[n]

\* the output is made of the contributions of the lines taken, in input order
C21_OutputInOrder == processed_lines = Contributions(line_index)

\* the flags follow the last marker taken: once a cell marker has been
\* seen, the in-code-cell state is left only by a markdown marker
C21_CellState ==
    /\ in_code_cell = InCodeCellAt(line_index + 1)
    /\ in_markdown = InMarkdownAt(line_index + 1)

\* no line of the output is blank, a marker or a line starting with '%'
C21_NoStrippedLine ==
    \A i \in 1..Len(processed_lines) :
        /\ ~is_blank(processed_lines[i])
        /\ ~is_cell_marker(processed_lines[i])
        /\ ~is_markdown_marker(processed_lines[i])
        /\ ~is_magic(processed_lines[i])

\* C21: for any sequence of input lines the output of
\* preprocess_databricks_notebook keeps the lines in input order and holds
\* no blank line, no cell marker, no markdown marker, no line between a
\* markdown marker and the next cell marker and no line starting with '%';
\* a %python line outside a markdown cell contributes its code when it has
\* some, every other line is kept unchanged except the "# " comments met
\* outside a code cell, and the in-code-cell state, once entered, is left
\* only by a markdown marker.
C21_LineStateMachine == C21_OutputInOrder /\ C21_CellState /\ C21_NoStrippedLine

====
